---- MODULE Spec2Model ----
(***************************************************************************)
(* A model of tradeinternal_mcp_server: the identifier sanitizer, the      *)
(* time-frame normalizer, the four query repositories and the database     *)
(* gateway (repository.py, database.py), the response builders, the tools  *)
(* and the repository accessors (server.py) and the routes (api.py).       *)
(*                                                                         *)
(* Text that the code inspects character by character (identifiers, SQL)   *)
(* is a sequence of one-character strings.  Values that the code only      *)
(* compares or passes on (symbols, time frames, exchanges) are strings.    *)
(***************************************************************************)
EXTENDS Integers, Sequences, FiniteSets, TLC

VARIABLES
    repository,   \* the repository object of the process, or NoRepository
    db_rows,      \* number of stored rows of every (symbol, time_frame) series
    call,         \* the call in progress or just finished, as the caller sees it
    conns,        \* gateway: state of every connection ever opened
    thread,       \* gateway: position of every thread inside fetch_all
    finished,     \* gateway: log of the fetch_all calls that have exited
    server_globals, \* server.py: _repository and its three siblings, by entity
    api_cache,    \* api.py: the lru_cache of get_repository and its siblings
    constructed,  \* repository objects constructed so far, by entity
    request,      \* position of every thread inside an accessor
    seen          \* the repository objects the accessors have returned, by entity

singletonVars == <<server_globals, api_cache, constructed, request, seen>>

vars == <<repository, db_rows, call, conns, thread, finished, singletonVars>>

-----------------------------------------------------------------------------
(* Bounds of the model *)

\* longest identifier text tried as a configured table or column name
MaxIdentLen == 2
\* longest stored series, in rows
MaxRows == 3
\* number of threads calling the gateway at the same time
NumThreads == 2
\* number of fetch_all calls made in one behaviour of the gateway
MaxCalls == 3
\* longest row list handed to a response builder
MaxEnvelopeRows == 2
\* number of requests that ask for a repository in one behaviour
MaxRequests == 3
\* most keys of a row handed to the serializer directly
MaxRowKeys == 2

-----------------------------------------------------------------------------
(* Python values *)

None == [some |-> FALSE]
Some(x) == [some |-> TRUE, val |-> x]

\* the outcome of a call: a returned value or a raised exception
Return(v) == [raised |-> "", value |-> v]
Raise(e) == [raised |-> e]
Raised(r) == r.raised # ""

-----------------------------------------------------------------------------
(* Text *)

Str_symbol == <<"s","y","m","b","o","l">>
Str_time_frame == <<"t","i","m","e","_","f","r","a","m","e">>
Str_timestamp == <<"t","i","m","e","s","t","a","m","p">>
Str_exchange == <<"e","x","c","h","a","n","g","e">>
Str_tradingview_candle_data ==
    <<"t","r","a","d","i","n","g","v","i","e","w","_","c","a","n","d","l","e","_","d","a","t","a">>
Str_tradingview_volume_footprint ==
    <<"t","r","a","d","i","n","g","v","i","e","w","_","v","o","l","u","m","e","_",
      "f","o","o","t","p","r","i","n","t">>
Str_tradingview_candle_cvd ==
    <<"t","r","a","d","i","n","g","v","i","e","w","_","c","a","n","d","l","e","_","c","v","d">>
Str_tradingview_ema ==
    <<"t","r","a","d","i","n","g","v","i","e","w","_","e","m","a">>

\* the characters tried in configured identifiers: a letter, the underscore,
\* a statement separator and a newline
PoolChars == {"a", "_", ";", "\n"}

RECURSIVE TextsOfLen(_)
TextsOfLen(n) ==
    IF n = 0 THEN {<<>>}
    ELSE {Append(s, c) : s \in TextsOfLen(n - 1), c \in PoolChars}

\* every text of at most MaxIdentLen characters over PoolChars
IdentPool == UNION {TextsOfLen(n) : n \in 0..MaxIdentLen}

-----------------------------------------------------------------------------
(* repository.py: ALLOWED_IDENTIFIER and _sanitize_identifier *)

\* the character class [A-Za-z0-9_]
IdentifierChars ==
    {"A","B","C","D","E","F","G","H","I","J","K","L","M","N","O","P","Q","R","S","T",
     "U","V","W","X","Y","Z",
     "a","b","c","d","e","f","g","h","i","j","k","l","m","n","o","p","q","r","s","t",
     "u","v","w","x","y","z",
     "0","1","2","3","4","5","6","7","8","9","_"}

\* s[1..n] is a non-empty run of identifier characters
IdentifierRun(s, n) ==
    /\ n >= 1
    /\ n <= Len(s)
    /\ \A i \in 1..n : s[i] \in IdentifierChars

\* re.compile(r"^[A-Za-z0-9_]+$").match(s): the run starts at the beginning
\* of s, and "$" (no re.MULTILINE) matches at the end of s and also just
\* before a newline that is the last character of s.
ALLOWED_IDENTIFIER_match(s) ==
    \/ IdentifierRun(s, Len(s))
    \/ /\ Len(s) >= 2
       /\ s[Len(s)] = "\n"
       /\ IdentifierRun(s, Len(s) - 1)

\* candidate = value or default; raise ValueError unless the pattern matches
_sanitize_identifier(value, default) ==
    LET candidate == IF value # <<>> THEN value ELSE default
    IN  IF ~ALLOWED_IDENTIFIER_match(candidate)
        THEN Raise("ValueError")
        ELSE Return(candidate)

-----------------------------------------------------------------------------
(* repository.py: _normalize_time_frame *)

\* Loading a name inside a function body: a local (here, a parameter) is
\* found; the module defines no global and Python no builtin called
\* "vahalue", so any other name raises NameError.
LoadName(name, locals) ==
    IF name \in DOMAIN locals THEN Return(locals[name]) ELSE Raise("NameError")

\* the if/elif chain of the function once the first condition has a value
_normalize_time_frame_chain(first, value) ==
    IF first = "1" THEN "1m"
    ELSE IF value = "5" THEN "5m"
    ELSE IF value = "15" THEN "15m"
    ELSE IF value = "30" THEN "30m"
    ELSE IF value = "45" THEN "45m"
    ELSE IF value = "60" THEN "1H"
    ELSE value

\* line 27 reads `vahalue`, not the parameter `value`
_normalize_time_frame(value) ==
    LET locals == [n \in {"value"} |-> value]
        first == LoadName("vahalue", locals)
    IN  IF Raised(first) THEN first
        ELSE Return(_normalize_time_frame_chain(first.value, value))

-----------------------------------------------------------------------------
(* repository.py: the four repository classes, construction *)

Kinds == {"candle", "footprint", "cvd", "ema"}

\* the default of the table parameter, also the fallback handed to the sanitizer
DefaultTable(kind) ==
    CASE kind = "candle" -> Str_tradingview_candle_data
      [] kind = "footprint" -> Str_tradingview_volume_footprint
      [] kind = "cvd" -> Str_tradingview_candle_cvd
      [] kind = "ema" -> Str_tradingview_ema

\* os.getenv(name, default): the value of the variable when it is set
getenv(setting, default) == IF setting.some THEN Some(setting.val) ELSE default

\* Python truthiness of an Optional[str]
Truthy(opt) == opt.some /\ opt.val # <<>>

\* __init__ of CandleRepository, VolumeFootprintRepository, CandleCvdRepository
\* and EmaRepository: the five names are sanitized in order and the first
\* failure raises; a falsy exchange_column is stored as None.  No call is
\* made on db.
Repository__init__(kind, table, symbol_column, time_frame_column, timestamp_column, exchange_column) ==
    LET t == _sanitize_identifier(table, DefaultTable(kind))
        s == _sanitize_identifier(symbol_column, Str_symbol)
        f == _sanitize_identifier(time_frame_column, Str_time_frame)
        ts == _sanitize_identifier(timestamp_column, Str_timestamp)
        e == IF Truthy(exchange_column)
             THEN _sanitize_identifier(exchange_column.val, Str_exchange)
             ELSE Return(<<>>)
    IN  IF Raised(t) THEN t
        ELSE IF Raised(s) THEN s
        ELSE IF Raised(f) THEN f
        ELSE IF Raised(ts) THEN ts
        ELSE IF Raised(e) THEN e
        ELSE Return([kind |-> kind,
                     _table |-> t.value,
                     _symbol_column |-> s.value,
                     _time_frame_column |-> f.value,
                     _timestamp_column |-> ts.value,
                     _exchange_column |->
                         IF Truthy(exchange_column) THEN Some(e.value) ELSE None])

\* from_env of the four classes: every name has a default except the
\* exchange column of the footprint repository (os.getenv without default)
from_env(kind, env) ==
    Repository__init__(
        kind,
        getenv(env.table, Some(DefaultTable(kind))).val,
        getenv(env.symbol_column, Some(Str_symbol)).val,
        getenv(env.time_frame_column, Some(Str_time_frame)).val,
        getenv(env.timestamp_column, Some(Str_timestamp)).val,
        getenv(env.exchange_column,
               IF kind = "footprint" THEN None ELSE Some(Str_exchange)))

\* the texts tried as values of the environment overrides
EnvTexts == {<<>>, <<"a">>, <<"a", "\n">>, <<"a", ";">>, <<"\n">>}

EnvVars == {"table", "symbol_column", "time_frame_column", "timestamp_column",
            "exchange_column"}

\* the environments tried: no override, or one variable overridden
Environments ==
    {[v \in EnvVars |-> None]}
    \cup {[v \in EnvVars |-> IF v = w THEN Some(t) ELSE None] :
             w \in EnvVars, t \in EnvTexts}

NoRepository == [kind |-> "none"]

-----------------------------------------------------------------------------
(* repository.py: the statements of the four fetch methods *)

Str_fp_id == <<"f","p","_","i","d">>
Str_poc == <<"p","o","c">>
Str_vah == <<"v","a","h">>
Str_val == <<"v","a","l">>
Str_volume_delta == <<"v","o","l","u","m","e","_","d","e","l","t","a">>
Str_levels == <<"l","e","v","e","l","s">>
Str_total_fp_volume == <<"t","o","t","a","l","_","f","p","_","v","o","l","u","m","e">>
Str_volume_diff == <<"v","o","l","u","m","e","_","d","i","f","f">>
Str_created_at == <<"c","r","e","a","t","e","d","_","a","t">>
Str_updated_at == <<"u","p","d","a","t","e","d","_","a","t">>
Str_cvd_id == <<"c","v","d","_","i","d">>
Str_open == <<"o","p","e","n">>
Str_high == <<"h","i","g","h">>
Str_low == <<"l","o","w">>
Str_close == <<"c","l","o","s","e">>
Str_volume == <<"v","o","l","u","m","e">>
Str_ohlc_color == <<"o","h","l","c","_","c","o","l","o","r">>
Str_wick_color == <<"w","i","c","k","_","c","o","l","o","r">>
Str_border_color == <<"b","o","r","d","e","r","_","c","o","l","o","r">>
Str_e_id == <<"e","_","i","d">>
Str_c20_ema == <<"2","0","_","e","m","a">>
Str_c50_ema == <<"5","0","_","e","m","a">>
Str_c100_ema == <<"1","0","0","_","e","m","a">>
Str_c200_ema == <<"2","0","0","_","e","m","a">>
Str_date_time == <<"d","a","t","e","_","t","i","m","e">>

RECURSIVE JoinWith(_, _)
\* sep.join(parts)
JoinWith(sep, parts) ==
    IF parts = <<>> THEN <<>>
    ELSE IF Len(parts) = 1 THEN parts[1]
    ELSE parts[1] \o sep \o JoinWith(sep, Tail(parts))

\* f"{column} AS {alias}"
As(column, alias) == column \o <<" ","A","S"," ">> \o alias

\* the first element of sql_parts of fetch_candles: the literal names
\* time_frame and symbol, the configured timestamp column, no alias
candle_select(self) ==
    <<"S","E","L","E","C","T"," ","t","i","m","e","_","f","r","a","m","e",","," ","s","y","m","b","o","l",","," ">>
    \o self._timestamp_column
    \o <<","," ","o","p","e","n",","," ","h","i","g","h",","," ","l","o","w",","," ","c","l","o","s","e",","," ","v","o","l","u","m","e"," ","F","R","O","M"," ">>
    \o self._table

\* select_columns of fetch_volume_footprints
footprint_select_columns(self) ==
    <<Str_fp_id,
      As(self._time_frame_column, Str_time_frame),
      As(self._symbol_column, Str_symbol),
      As(self._timestamp_column, Str_timestamp)>>
    \o (IF self._exchange_column.some
        THEN <<As(self._exchange_column.val, Str_exchange)>> ELSE <<>>)
    \o <<Str_poc, Str_vah, Str_val, Str_volume_delta, Str_levels,
         Str_total_fp_volume, Str_volume_diff, Str_created_at, Str_updated_at>>

\* select_columns of fetch_cvd, the None entry filtered out
cvd_select_columns(self) ==
    <<Str_cvd_id>>
    \o (IF self._exchange_column.some
        THEN <<As(self._exchange_column.val, Str_exchange)>> ELSE <<>>)
    \o <<As(self._symbol_column, Str_symbol),
         As(self._time_frame_column, Str_time_frame),
         As(self._timestamp_column, Str_timestamp),
         Str_open, Str_high, Str_low, Str_close,
         Str_ohlc_color, Str_wick_color, Str_border_color>>

\* select_columns of fetch_ema, the None entry filtered out
ema_select_columns(self) ==
    <<Str_e_id>>
    \o (IF self._exchange_column.some
        THEN <<As(self._exchange_column.val, Str_exchange)>> ELSE <<>>)
    \o <<As(self._symbol_column, Str_symbol),
         As(self._time_frame_column, Str_time_frame),
         As(self._timestamp_column, Str_timestamp),
         Str_c20_ema, Str_c50_ema, Str_c100_ema, Str_c200_ema, Str_date_time>>

\* f"SELECT {', '.join(select_columns)} FROM {self._table}"
select_from(select_columns, self) ==
    <<"S","E","L","E","C","T"," ">> \o JoinWith(<<","," ">>, select_columns)
    \o <<" ","F","R","O","M"," ">> \o self._table

\* sql_parts[0] of the fetch method of the repository's class
select_part(self) ==
    CASE self.kind = "candle" -> candle_select(self)
      [] self.kind = "footprint" -> select_from(footprint_select_columns(self), self)
      [] self.kind = "cvd" -> select_from(cvd_select_columns(self), self)
      [] self.kind = "ema" -> select_from(ema_select_columns(self), self)

\* "WHERE {symbol_col} = %s AND {time_frame_col} = %s"
where_part(self) ==
    <<"W","H","E","R","E"," ">> \o self._symbol_column \o <<" ","="," ","%","s"," ","A","N","D"," ">>
    \o self._time_frame_column \o <<" ","="," ","%","s">>

\* f"AND {column} = %s", f"AND {column} >= %s", f"AND {column} <= %s"
and_part(column, op) ==
    <<"A","N","D"," ">> \o column \o <<" ">> \o op \o <<" ","%","s">>

\* f"ORDER BY {self._timestamp_column} DESC"
order_part(self) ==
    <<"O","R","D","E","R"," ","B","Y"," ">> \o self._timestamp_column \o <<" ","D","E","S","C">>

limit_part == <<"L","I","M","I","T"," ","%","s">>

\* limit = max(1, min(limit, 1000))
clamp_limit(limit) ==
    LET lower == IF limit < 1000 THEN limit ELSE 1000
    IN  IF lower > 1 THEN lower ELSE 1

\* The statement and its parameters, from the list literal sql_parts to
\* params.append(limit): the exchange filter raises ValueError when the
\* repository has no exchange column; every part that is appended to
\* sql_parts appends its value to params.
build_statement(self, symbol, time_frame, limit, exchange, start_timestamp, end_timestamp) ==
    IF exchange.some /\ ~self._exchange_column.some
    THEN Raise("ValueError")
    ELSE Return(
        [sql |-> JoinWith(<<" ">>,
            <<select_part(self), where_part(self)>>
            \o (IF exchange.some
                THEN <<and_part(self._exchange_column.val, <<"=">>)>> ELSE <<>>)
            \o (IF start_timestamp.some
                THEN <<and_part(self._timestamp_column, <<">", "=">>)>> ELSE <<>>)
            \o (IF end_timestamp.some
                THEN <<and_part(self._timestamp_column, <<"<", "=">>)>> ELSE <<>>)
            \o <<order_part(self), limit_part>>),
         params |-> <<symbol, time_frame>>
            \o (IF exchange.some THEN <<exchange.val>> ELSE <<>>)
            \o (IF start_timestamp.some THEN <<start_timestamp.val>> ELSE <<>>)
            \o (IF end_timestamp.some THEN <<end_timestamp.val>> ELSE <<>>)
            \o <<limit>>])

-----------------------------------------------------------------------------
(* The database behind the gateway: MySQL holding the configured tables *)

Symbols == {"BANKNIFTY1!", "NIFTY"}
StoredTimeFrames == {"30m", "1H"}
StoredExchange == "NSE"

\* the wire format of the timestamp filters and the ISO-8601 text of
\* datetime.isoformat(), for the instants 1, 2, ... of the stored rows
WireTime ==
    <<"2024-01-01 09:15:00", "2024-01-01 09:45:00", "2024-01-01 10:15:00",
      "2024-01-01 10:45:00", "2024-01-01 11:15:00", "2024-01-01 11:45:00">>
IsoTime ==
    <<"2024-01-01T09:15:00", "2024-01-01T09:45:00", "2024-01-01T10:15:00",
      "2024-01-01T10:45:00", "2024-01-01T11:15:00", "2024-01-01T11:45:00">>

\* date.isoformat(), for the days 1, 2, ...
IsoDate ==
    <<"2024-01-01", "2024-01-02", "2024-01-03", "2024-01-04", "2024-01-05", "2024-01-06">>

InstantOfWire(text) == CHOOSE n \in DOMAIN WireTime : WireTime[n] = text
InstantOfIso(text) == CHOOSE n \in DOMAIN IsoTime : IsoTime[n] = text

\* SQL reads a name up to trailing white space
SqlName(text) ==
    IF text # <<>> /\ text[Len(text)] = "\n" THEN SubSeq(text, 1, Len(text) - 1) ELSE text

\* the levels column of stored row n: JSON text, other text, bytes that are
\* UTF-8 JSON, bytes that are not UTF-8, NULL
StoredLevels(n) ==
    CASE n % 5 = 1 -> [t |-> "str", v |-> "{\"a\":1}"]
      [] n % 5 = 2 -> [t |-> "str", v |-> "not json"]
      [] n % 5 = 3 -> [t |-> "bytes", v |-> "{\"a\":1}"]
      [] n % 5 = 4 -> [t |-> "bytes", v |-> "<not utf-8>"]
      [] OTHER -> [t |-> "NoneType", v |-> "None"]

Num(type, n) == [t |-> type, v |-> n]
Str(text) == [t |-> "str", v |-> text]

\* The row of instant n of one series as the DictCursor returns it for the
\* statement of the repository: one entry per select expression, in the
\* order of the select list, keyed by the alias or else by the column name.
ResultRow(self, symbol, time_frame, n) ==
    LET exchange == IF self._exchange_column.some
                    THEN <<<<Str_exchange, Str(StoredExchange)>>>> ELSE <<>>
        sym == <<Str_symbol, Str(symbol)>>
        tf == <<Str_time_frame, Str(time_frame)>>
    IN  CASE self.kind = "candle" ->
               <<tf, sym, <<SqlName(self._timestamp_column), Num("datetime", n)>>,
                 <<Str_open, Num("Decimal", n)>>, <<Str_high, Num("Decimal", n + 1)>>,
                 <<Str_low, Num("Decimal", n - 1)>>, <<Str_close, Num("Decimal", n)>>,
                 <<Str_volume, Num("Decimal", n)>>>>
          [] self.kind = "footprint" ->
               <<<<Str_fp_id, Num("int", n)>>, tf, sym,
                 <<Str_timestamp, Num("datetime", n)>>>>
               \o exchange
               \o <<<<Str_poc, Num("Decimal", n)>>, <<Str_vah, Num("Decimal", n + 1)>>,
                    <<Str_val, Num("Decimal", n - 1)>>,
                    <<Str_volume_delta, Num("Decimal", n)>>,
                    <<Str_levels, StoredLevels(n)>>,
                    <<Str_total_fp_volume, Num("Decimal", n)>>,
                    <<Str_volume_diff, Num("Decimal", n)>>,
                    <<Str_created_at, Num("datetime", n)>>,
                    <<Str_updated_at, Num("datetime", n)>>>>
          [] self.kind = "cvd" ->
               <<<<Str_cvd_id, Num("int", n)>>>>
               \o exchange
               \o <<sym, tf, <<Str_timestamp, Num("datetime", n)>>,
                    <<Str_open, Num("Decimal", n)>>, <<Str_high, Num("Decimal", n + 1)>>,
                    <<Str_low, Num("Decimal", n - 1)>>, <<Str_close, Num("Decimal", n)>>,
                    <<Str_ohlc_color, Num("int", n)>>, <<Str_wick_color, Num("int", n)>>,
                    <<Str_border_color, Num("int", n)>>>>
          [] self.kind = "ema" ->
               <<<<Str_e_id, Num("int", n)>>>>
               \o exchange
               \o <<sym, tf, <<Str_timestamp, Num("datetime", n)>>,
                    <<Str_c20_ema, Num("Decimal", n)>>, <<Str_c50_ema, Num("Decimal", n)>>,
                    <<Str_c100_ema, Num("Decimal", n)>>, <<Str_c200_ema, Num("Decimal", n)>>,
                    <<Str_date_time, Num("datetime", n)>>>>

RECURSIVE Descending(_)
\* the elements of a finite set of integers, greatest first
Descending(set) ==
    IF set = {} THEN <<>>
    ELSE LET m == CHOOSE x \in set : \A y \in set : y <= x
         IN  <<m>> \o Descending(set \ {m})

\* The stored instants that the WHERE clause of the statement keeps.  Every
\* series Symbols x StoredTimeFrames holds the instants 1..stored.
Matching(stored, symbol, time_frame, exchange, start_timestamp, end_timestamp) ==
    {n \in 1..stored :
        /\ symbol \in Symbols
        /\ time_frame \in StoredTimeFrames
        /\ exchange.some => exchange.val = StoredExchange
        /\ start_timestamp.some => n >= InstantOfWire(start_timestamp.val)
        /\ end_timestamp.some => n <= InstantOfWire(end_timestamp.val)}

\* What MySQL answers to the statement: the candle statement names the
\* columns time_frame and symbol literally, which the table has only when
\* they are the configured columns (else "Unknown column"); the matching
\* rows come ORDER BY timestamp DESC, at most LIMIT of them.
mysql_execute(self, stored, symbol, time_frame, limit, exchange, start_timestamp, end_timestamp) ==
    IF /\ self.kind = "candle"
       /\ \/ SqlName(self._symbol_column) # Str_symbol
          \/ SqlName(self._time_frame_column) # Str_time_frame
    THEN Raise("OperationalError")
    ELSE LET desc == Descending(Matching(stored, symbol, time_frame, exchange,
                                         start_timestamp, end_timestamp))
             count == IF Len(desc) < limit THEN Len(desc) ELSE limit
         IN  Return([i \in 1..count |-> ResultRow(self, symbol, time_frame, desc[i])])

-----------------------------------------------------------------------------
(* database.py: DatabaseClient.fetch_all, seen from one caller *)

\* One whole call of fetch_all.  `answer` is what the server answers to the
\* statement, `fault` the step of the driver that fails, if any.  connect()
\* failing raises before any connection exists; after it, the connection is
\* closed by the finally clause however the with block is left.
fetch_all(answer, fault) ==
    IF fault = "connect"
    THEN [raised |-> "OperationalError", value |-> <<>>,
          opened |-> 0, closed |-> 0, executed |-> 0]
    ELSE IF fault = "execute"
    THEN [raised |-> "OperationalError", value |-> <<>>,
          opened |-> 1, closed |-> 1, executed |-> 1]
    ELSE IF Raised(answer)
    THEN [raised |-> answer.raised, value |-> <<>>,
          opened |-> 1, closed |-> 1, executed |-> 1]
    ELSE [raised |-> "", value |-> answer.value,
          opened |-> 1, closed |-> 1, executed |-> 1]

-----------------------------------------------------------------------------
(* repository.py: _serialize_row and the four fetch methods *)

\* a serializer that leaves Decimal as it is
_serialize_value_keeps_decimal(value) ==
    IF value.t = "datetime" THEN Str(IsoTime[value.v])
    ELSE IF value.t = "date" THEN Str(IsoDate[value.v])
    ELSE value

\* datetime and date become their isoformat() text, Decimal becomes float,
\* every other value is kept; the keys keep their order
_serialize_value(value) ==
    IF value.t = "datetime" THEN Str(IsoTime[value.v])
    ELSE IF value.t = "date" THEN Str(IsoDate[value.v])
    ELSE IF value.t = "Decimal" THEN Num("float", value.v)
    ELSE value

_serialize_row(row) ==
    [i \in DOMAIN row |-> <<row[i][1], _serialize_value(row[i][2])>>]

\* dict.get(key): the value of the key, or None
Get(row, key) ==
    IF \E i \in DOMAIN row : row[i][1] = key
    THEN Some(row[CHOOSE i \in DOMAIN row : row[i][1] = key][2])
    ELSE None

\* row[key] = value on a dict: in place for a present key, else at the end
SetItem(row, key, value) ==
    IF \E i \in DOMAIN row : row[i][1] = key
    THEN [i \in DOMAIN row |-> IF row[i][1] = key THEN <<key, value>> ELSE row[i]]
    ELSE Append(row, <<key, value>>)

\* list.reverse()
Reverse(seq) == [i \in DOMAIN seq |-> seq[Len(seq) + 1 - i]]

Utf8Valid(bytes) == bytes # "<not utf-8>"
JsonValid(text) == text = "{\"a\":1}"

\* the body of the for loop of fetch_volume_footprints: bytes that decode as
\* UTF-8 are replaced by their text, text that parses as JSON by the parsed
\* value; both failures are passed over
footprint_row(row) ==
    LET serialized == _serialize_row(row)
        got == Get(serialized, Str_levels)
        levels_value == IF got.some THEN got.val ELSE [t |-> "NoneType", v |-> "None"]
        decoded == levels_value.t = "bytes" /\ Utf8Valid(levels_value.v)
        text == IF decoded THEN Str(levels_value.v) ELSE levels_value
        after_decode == IF decoded THEN SetItem(serialized, Str_levels, text)
                        ELSE serialized
    IN  IF text.t = "str" /\ JsonValid(text.v)
        THEN SetItem(after_decode, Str_levels, [t |-> "dict", v |-> text.v])
        ELSE after_decode

\* a fetch that raised before anything was handed to the gateway
NotSent(error, limit) ==
    [raised |-> error, rows |-> <<>>, sent |-> FALSE, sql |-> <<>>, params |-> <<>>,
     limit |-> limit, opened |-> 0, closed |-> 0, executed |-> 0]

\* fetch_rows with the statement handed to the gateway before the time
\* frame is normalized and the exchange filter checked
fetch_rows_query_before_checks(self, stored, fault, symbol, time_frame, limit, exchange, start_timestamp, end_timestamp) ==
    LET clamped == clamp_limit(limit)
        got == fetch_all(mysql_execute(self, stored, symbol, time_frame, clamped, None,
                                       start_timestamp, end_timestamp),
                         fault)
        tf == _normalize_time_frame(time_frame)
        st == IF Raised(tf) THEN tf
              ELSE build_statement(self, symbol, tf.value, clamped, exchange,
                                   start_timestamp, end_timestamp)
    IN  IF Raised(got) \/ Raised(st)
        THEN [raised |-> IF Raised(got) THEN got.raised ELSE st.raised,
              rows |-> <<>>, sent |-> TRUE, sql |-> <<>>, params |-> <<>>,
              limit |-> clamped,
              opened |-> got.opened, closed |-> got.closed, executed |-> got.executed]
        ELSE [raised |-> "", rows |-> Reverse(got.value), sent |-> TRUE,
              sql |-> st.value.sql, params |-> st.value.params, limit |-> clamped,
              opened |-> got.opened, closed |-> got.closed, executed |-> got.executed]

\* The part the four fetch methods share, from the clamp of limit to
\* rows.reverse(): the limit is clamped, the time frame normalized, the
\* statement built and handed to the gateway, the rows reversed.  An
\* exception of any step ends the call there.
fetch_rows(self, stored, fault, symbol, time_frame, limit, exchange, start_timestamp, end_timestamp) ==
    LET clamped == clamp_limit(limit)
        tf == _normalize_time_frame(time_frame)
    IN  IF Raised(tf) THEN NotSent(tf.raised, clamped)
        ELSE
        LET st == build_statement(self, symbol, tf.value, clamped, exchange,
                                   start_timestamp, end_timestamp)
        IN  IF Raised(st) THEN NotSent(st.raised, clamped)
            ELSE
            LET got == fetch_all(mysql_execute(self, stored, symbol, tf.value, clamped,
                                               exchange, start_timestamp, end_timestamp),
                                 fault)
            IN  [raised |-> got.raised, rows |-> Reverse(got.value), sent |-> TRUE,
                 sql |-> st.value.sql, params |-> st.value.params, limit |-> clamped,
                 opened |-> got.opened, closed |-> got.closed, executed |-> got.executed]

SerializeAll(rows) == [i \in DOMAIN rows |-> _serialize_row(rows[i])]

fetch_candles(self, stored, fault, symbol, time_frame, limit, exchange, start_timestamp, end_timestamp) ==
    LET got == fetch_rows(self, stored, fault, symbol, time_frame, limit, exchange,
                          start_timestamp, end_timestamp)
    IN  [got EXCEPT !.rows = SerializeAll(got.rows)]

fetch_volume_footprints(self, stored, fault, symbol, time_frame, limit, exchange, start_timestamp, end_timestamp) ==
    LET got == fetch_rows(self, stored, fault, symbol, time_frame, limit, exchange,
                          start_timestamp, end_timestamp)
    IN  [got EXCEPT !.rows = [i \in DOMAIN got.rows |-> footprint_row(got.rows[i])]]

fetch_cvd(self, stored, fault, symbol, time_frame, limit, exchange, start_timestamp, end_timestamp) ==
    LET got == fetch_rows(self, stored, fault, symbol, time_frame, limit, exchange,
                          start_timestamp, end_timestamp)
    IN  [got EXCEPT !.rows = SerializeAll(got.rows)]

fetch_ema(self, stored, fault, symbol, time_frame, limit, exchange, start_timestamp, end_timestamp) ==
    LET got == fetch_rows(self, stored, fault, symbol, time_frame, limit, exchange,
                          start_timestamp, end_timestamp)
    IN  [got EXCEPT !.rows = SerializeAll(got.rows)]

-----------------------------------------------------------------------------
(* server.py: _format_timestamp and the four response builders *)

Str_u20_ema == <<"_","2","0","_","e","m","a">>
Str_u50_ema == <<"_","5","0","_","e","m","a">>
Str_u100_ema == <<"_","1","0","0","_","e","m","a">>
Str_u200_ema == <<"_","2","0","0","_","e","m","a">>

PyNone == [t |-> "NoneType", v |-> "None"]

\* `not value`: None, the empty string and a zero number are falsy
Falsy(value) ==
    \/ value.t = "NoneType"
    \/ value.t = "str" /\ value.v = ""
    \/ value.t \in {"int", "float"} /\ value.v = 0

\* dt.datetime.fromisoformat(value): TypeError for an argument that is not a
\* str, ValueError for a str that is not ISO-8601; the date and time may be
\* separated by "T" or by a space, and a date alone is midnight of that day
fromisoformat(value) ==
    IF value.t # "str" THEN Raise("TypeError")
    ELSE IF \E n \in DOMAIN IsoTime : IsoTime[n] = value.v
    THEN Return([day |-> 1, time |-> InstantOfIso(value.v)])
    ELSE IF \E n \in DOMAIN WireTime : WireTime[n] = value.v
    THEN Return([day |-> 1, time |-> InstantOfWire(value.v)])
    ELSE IF \E n \in DOMAIN IsoDate : IsoDate[n] = value.v
    THEN Return([day |-> CHOOSE n \in DOMAIN IsoDate : IsoDate[n] = value.v, time |-> 0])
    ELSE Raise("ValueError")

\* the midnights of the days 1, 2, ... in the display format
WireMidnight ==
    <<"2024-01-01 00:00:00", "2024-01-02 00:00:00", "2024-01-03 00:00:00",
      "2024-01-04 00:00:00", "2024-01-05 00:00:00", "2024-01-06 00:00:00">>

\* dt_value.strftime("%Y-%m-%d %H:%M:%S")
strftime(dt_value) ==
    IF dt_value.time = 0 THEN WireMidnight[dt_value.day] ELSE WireTime[dt_value.time]

\* only ValueError is caught
_format_timestamp(value) ==
    IF Falsy(value) THEN Return(PyNone)
    ELSE LET dt_value == fromisoformat(value)
         IN  IF dt_value.raised = "ValueError" THEN Return(value)
             ELSE IF Raised(dt_value) THEN dt_value
             ELSE Return(Str(strftime(dt_value.value)))

\* row[key]: KeyError for a missing key
GetItem(row, key) ==
    IF Get(row, key).some THEN Return(Get(row, key).val) ELSE Raise("KeyError")

\* row.get(key): None for a missing key
GetOrNone(row, key) == IF Get(row, key).some THEN Get(row, key).val ELSE PyNone

\* a builder that reads both timestamps from the first row
response_end_of_first_row(key, rows, carried) ==
    LET start_iso == IF rows # <<>> THEN GetItem(rows[1], Str_timestamp) ELSE Return(PyNone)
    IN  IF Raised(start_iso) THEN start_iso
        ELSE LET first == _format_timestamp(start_iso.value)
             IN  IF Raised(first) THEN first
                 ELSE Return([start_timestamp |-> first.value,
                              end_timestamp |-> first.value,
                              count |-> Len(rows),
                              key |-> key,
                              rows |-> carried])

\* What the four builders share: start_iso and end_iso are read from the
\* first and the last row (None for no rows), then the dict is built, its
\* entries evaluated in order.
response(key, rows, carried) ==
    LET start_iso == IF rows # <<>> THEN GetItem(rows[1], Str_timestamp) ELSE Return(PyNone)
        end_iso == IF rows # <<>> THEN GetItem(rows[Len(rows)], Str_timestamp)
                   ELSE Return(PyNone)
    IN  IF Raised(start_iso) THEN start_iso
        ELSE IF Raised(end_iso) THEN end_iso
        ELSE LET first == _format_timestamp(start_iso.value)
                 last == _format_timestamp(end_iso.value)
             IN  IF Raised(first) THEN first
                 ELSE IF Raised(last) THEN last
                 ELSE Return([start_timestamp |-> first.value,
                              end_timestamp |-> last.value,
                              count |-> Len(rows),
                              key |-> key,
                              rows |-> carried])

format_candle_response(rows) == response("candles", rows, rows)
format_volume_footprint_response(rows) == response("footprints", rows, rows)
format_cvd_response(rows) == response("cvd", rows, rows)

\* {**row, "_20_ema": row.get("20_ema"), ...}
ema_normalized_row(row) ==
    SetItem(SetItem(SetItem(SetItem(row,
        Str_u20_ema, GetOrNone(row, Str_c20_ema)),
        Str_u50_ema, GetOrNone(row, Str_c50_ema)),
        Str_u100_ema, GetOrNone(row, Str_c100_ema)),
        Str_u200_ema, GetOrNone(row, Str_c200_ema))

format_ema_response(rows) ==
    response("ema", rows, [i \in DOMAIN rows |-> ema_normalized_row(rows[i])])

\* the builder of the entity
format_response(kind, rows) ==
    CASE kind = "candle" -> format_candle_response(rows)
      [] kind = "footprint" -> format_volume_footprint_response(rows)
      [] kind = "cvd" -> format_cvd_response(rows)
      [] kind = "ema" -> format_ema_response(rows)

-----------------------------------------------------------------------------
(* server.py: the four tools; api.py: the four routes *)

\* repository.fetch_candles(...) and its siblings, as a tool or a route
\* calls the fetch method of its repository
fetch(self, stored, fault, symbol, time_frame, limit, exchange, start_timestamp, end_timestamp) ==
    CASE self.kind = "candle" -> fetch_candles(self, stored, fault, symbol, time_frame, limit, exchange, start_timestamp, end_timestamp)
      [] self.kind = "footprint" -> fetch_volume_footprints(self, stored, fault, symbol, time_frame, limit, exchange, start_timestamp, end_timestamp)
      [] self.kind = "cvd" -> fetch_cvd(self, stored, fault, symbol, time_frame, limit, exchange, start_timestamp, end_timestamp)
      [] self.kind = "ema" -> fetch_ema(self, stored, fault, symbol, time_frame, limit, exchange, start_timestamp, end_timestamp)

\* get_candles and the three other tools: after the fetch of the
\* repository, whose outcome is `got`, the builder of the entity; nothing is
\* caught.
tool_body(kind, got) ==
    IF Raised(got)
    THEN [raised |-> got.raised, envelope |-> <<>>, sent |-> got.sent, sql |-> got.sql,
          params |-> got.params, limit |-> got.limit, executed |-> got.executed]
    ELSE LET built == format_response(kind, got.rows)
         IN  [raised |-> built.raised,
              envelope |-> IF Raised(built) THEN <<>> ELSE built.value,
              sent |-> got.sent, sql |-> got.sql, params |-> got.params,
              limit |-> got.limit, executed |-> got.executed]

\* an answer of a route that never reached the repository
Unanswered(status, limit) ==
    [status |-> status, envelope |-> <<>>, sent |-> FALSE, sql |-> <<>>, params |-> <<>>,
     limit |-> limit, executed |-> 0]

\* get_candles and the three other routes.  Query(200, ge=1, le=1000): a limit outside
\* 1..1000 is refused by the validation of the query parameters with status
\* 422 and the function is not called.  In the function a ValueError of the
\* fetch or of the builder becomes HTTPException(400); any other exception
\* leaves the function and is answered with status 500.  `got` is the
\* outcome of the fetch, if the function is called.
route_body(kind, limit, got) ==
    IF limit < 1 \/ limit > 1000 THEN Unanswered(422, limit)
    ELSE LET done == tool_body(kind, got)
         IN  [status |-> IF done.raised = "" THEN 200
                         ELSE IF done.raised = "ValueError" THEN 400 ELSE 500,
              envelope |-> done.envelope, sent |-> done.sent, sql |-> done.sql,
              params |-> done.params, limit |-> done.limit, executed |-> done.executed]

-----------------------------------------------------------------------------
(* The process: one repository, built from the environment on first use,
   and the calls made on it *)

TimeFrames == {"1", "5", "15", "30", "45", "60", "1D", "30m"}
Limits == {-1, 0, 2, 1000, 1001, 5000}
ExchangeArgs == {None, Some(StoredExchange)}
TimestampArgs == {None, Some(WireTime[2])}
Faults == {"none", "connect", "execute"}

Idle == [op |-> "idle"]

InitRepository ==
    /\ repository = NoRepository
    /\ db_rows \in 0..MaxRows
    /\ call = Idle

InitGateway ==
    /\ conns = <<>>
    /\ thread = [t \in 1..NumThreads |-> [pc |-> "idle"]]
    /\ finished = <<>>

\* server.py:116-119: the four globals are None; nothing is cached
InitSingleton ==
    /\ server_globals = [kind \in Kinds |-> 0]
    /\ api_cache = [kind \in Kinds |-> 0]
    /\ constructed = [kind \in Kinds |-> 0]
    /\ request = [t \in 1..NumThreads |-> [pc |-> "idle", n |-> 0]]
    /\ seen = [kind \in Kinds |-> {}]

Init == InitRepository /\ InitGateway /\ InitSingleton

\* the start of the gateway and of the accessors, which do not look at the
\* stored rows: one database
InitStored == Init /\ db_rows = MaxRows

\* get_repository() and its three siblings: the repository is built by
\* from_env when there is none yet, and kept when the constructor returns
Construct(kind, env) ==
    /\ call = Idle
    /\ repository = NoRepository
    /\ LET made == from_env(kind, env)
       IN  /\ repository' = IF Raised(made) THEN NoRepository ELSE made.value
           /\ call' = [op |-> "construct", kind |-> kind, env |-> env,
                       raised |-> made.raised, opened |-> 0, executed |-> 0]
    /\ UNCHANGED <<db_rows, conns, thread, finished, singletonVars>>

\* the arguments and the outcome of one fetch call
FetchCall(got, fault, symbol, time_frame, limit, exchange, start_timestamp, end_timestamp) ==
    [op |-> "fetch", fault |-> fault, symbol |-> symbol, time_frame |-> time_frame,
     limit |-> limit, exchange |-> exchange, start_timestamp |-> start_timestamp,
     end_timestamp |-> end_timestamp, result |-> got]

FetchCandles ==
    /\ call = Idle
    /\ repository.kind = "candle"
    /\ \E f \in Faults, s \in Symbols, tf \in TimeFrames, l \in Limits,
          e \in ExchangeArgs, a \in TimestampArgs, b \in TimestampArgs :
          call' = FetchCall(fetch_candles(repository, db_rows, f, s, tf, l, e, a, b),
                            f, s, tf, l, e, a, b)
    /\ UNCHANGED <<repository, db_rows, conns, thread, finished, singletonVars>>

FetchVolumeFootprints ==
    /\ call = Idle
    /\ repository.kind = "footprint"
    /\ \E f \in Faults, s \in Symbols, tf \in TimeFrames, l \in Limits,
          e \in ExchangeArgs, a \in TimestampArgs, b \in TimestampArgs :
          call' = FetchCall(fetch_volume_footprints(repository, db_rows, f, s, tf, l, e, a, b),
                            f, s, tf, l, e, a, b)
    /\ UNCHANGED <<repository, db_rows, conns, thread, finished, singletonVars>>

FetchCvd ==
    /\ call = Idle
    /\ repository.kind = "cvd"
    /\ \E f \in Faults, s \in Symbols, tf \in TimeFrames, l \in Limits,
          e \in ExchangeArgs, a \in TimestampArgs, b \in TimestampArgs :
          call' = FetchCall(fetch_cvd(repository, db_rows, f, s, tf, l, e, a, b),
                            f, s, tf, l, e, a, b)
    /\ UNCHANGED <<repository, db_rows, conns, thread, finished, singletonVars>>

FetchEma ==
    /\ call = Idle
    /\ repository.kind = "ema"
    /\ \E f \in Faults, s \in Symbols, tf \in TimeFrames, l \in Limits,
          e \in ExchangeArgs, a \in TimestampArgs, b \in TimestampArgs :
          call' = FetchCall(fetch_ema(repository, db_rows, f, s, tf, l, e, a, b),
                            f, s, tf, l, e, a, b)
    /\ UNCHANGED <<repository, db_rows, conns, thread, finished, singletonVars>>

\* a direct call of _sanitize_identifier
CallSanitize(value, default) ==
    /\ call = Idle
    /\ call' = [op |-> "sanitize", value |-> value, default |-> default,
                result |-> _sanitize_identifier(value, default)]
    /\ UNCHANGED <<repository, db_rows, conns, thread, finished, singletonVars>>

\* _normalize_time_frame(_normalize_time_frame(value)): the inner call, and
\* the outer one on what the inner returned
CallNormalize(value) ==
    /\ call = Idle
    /\ LET once == _normalize_time_frame(value)
       IN  call' = [op |-> "normalize", value |-> value, once |-> once,
                    twice |-> IF Raised(once) THEN once
                              ELSE _normalize_time_frame(once.value)]
    /\ UNCHANGED <<repository, db_rows, conns, thread, finished, singletonVars>>

\* timestamp values of serialized rows: ISO-8601 text of a datetime column,
\* text of a text column, the integer of an epoch column, NULL
TimestampValues ==
    <<Str(IsoTime[1]), Str(IsoTime[2]), Str("not a time"), Str(""), Num("int", 3), PyNone>>

EnvelopeRow(timestamp) ==
    <<<<Str_symbol, Str("NIFTY")>>, <<Str_timestamp, timestamp>>,
      <<Str_c20_ema, Num("float", 1)>>, <<Str_c50_ema, PyNone>>>>

\* rows a caller can hand to a builder; the last one has no timestamp key
EnvelopeRows ==
    [i \in DOMAIN TimestampValues |-> EnvelopeRow(TimestampValues[i])]
        \o <<<<<<Str_symbol, Str("NIFTY")>>, <<Str_c20_ema, Num("float", 2)>>>>>>

\* the row lists of at most MaxEnvelopeRows of these rows, by position in
\* EnvelopeRows
RowPicks == UNION {[1..n -> DOMAIN EnvelopeRows] : n \in 0..MaxEnvelopeRows}

RowsOf(pick) == [i \in DOMAIN pick |-> EnvelopeRows[pick[i]]]

\* a direct call of format_candle_response or one of its three siblings;
\* they read nothing but their argument, so they are called before any
\* repository is built
CallFormat ==
    /\ call = Idle
    /\ repository = NoRepository
    /\ \E kind \in Kinds, pick \in RowPicks :
          call' = [op |-> "format", kind |-> kind, rows |-> RowsOf(pick),
                   result |-> format_response(kind, RowsOf(pick))]
    /\ UNCHANGED <<repository, db_rows, conns, thread, finished, singletonVars>>

\* one request with the same arguments to the tool and to the route of the
\* entity, against the same database
Request ==
    /\ call = Idle
    /\ repository # NoRepository
    /\ \E f \in Faults, tf \in {"30", "30m"}, l \in Limits, e \in ExchangeArgs,
          a \in TimestampArgs :
          \E got \in {fetch(repository, db_rows, f, "NIFTY", tf, l, e, a, None)} :
              call' = [op |-> "request", fault |-> f, symbol |-> "NIFTY",
                       time_frame |-> tf, limit |-> l, exchange |-> e,
                       start_timestamp |-> a, end_timestamp |-> None,
                       tool |-> tool_body(repository.kind, got),
                       http |-> route_body(repository.kind, l, got)]
    /\ UNCHANGED <<repository, db_rows, conns, thread, finished, singletonVars>>

\* values of the cells of a database row: the three types the serializer
\* converts, and int, str, NULL, bytes and timedelta, which it does not
CellValues ==
    <<Num("datetime", 1), Num("date", 2), Num("Decimal", 3), Num("int", 4),
      Str("NIFTY"), PyNone, [t |-> "bytes", v |-> "<not utf-8>"], Num("timedelta", 5)>>

\* column names of such a row, in the order of the select list
CellKeys == <<Str_timestamp, Str_close, Str_levels>>

\* the rows of at most MaxRowKeys cells, by position in CellValues
CellPicks == UNION {[1..n -> DOMAIN CellValues] : n \in 0..MaxRowKeys}

RowOfCells(pick) == [i \in DOMAIN pick |-> <<CellKeys[i], CellValues[pick[i]]>>]

\* a direct call of _serialize_row, which reads nothing but its argument
CallSerialize ==
    /\ call = Idle
    /\ repository = NoRepository
    /\ \E pick \in CellPicks :
          call' = [op |-> "serialize", row |-> RowOfCells(pick),
                   result |-> _serialize_row(RowOfCells(pick))]
    /\ UNCHANGED <<repository, db_rows, conns, thread, finished, singletonVars>>

\* the caller takes the outcome
Deliver ==
    /\ call # Idle
    /\ call' = Idle
    /\ UNCHANGED <<repository, db_rows, conns, thread, finished, singletonVars>>

Next ==
    \/ \E kind \in Kinds, env \in Environments : Construct(kind, env)
    \/ FetchCandles
    \/ FetchVolumeFootprints
    \/ FetchCvd
    \/ FetchEma
    \/ \E value \in IdentPool, default \in {<<>>, Str_symbol} : CallSanitize(value, default)
    \/ \E value \in TimeFrames : CallNormalize(value)
    \/ CallFormat
    \/ Request
    \/ CallSerialize
    \/ Deliver

Spec == Init /\ [][Next]_vars

-----------------------------------------------------------------------------
(* database.py: DatabaseClient.connection and fetch_all, step by step, for
   threads that call the gateway at the same time *)

Threads == 1..NumThreads

\* calls of fetch_all entered so far
Entered ==
    Len(finished) + Cardinality({t \in Threads : thread[t].pc # "idle"})

\* finally: conn.close(), run however the with block was left
connection_exit_no_finally(all, c, raised) ==
    IF raised = "" THEN [all EXCEPT ![c].state = "closed"] ELSE all
connection_exit(all, c, raised) == [all EXCEPT ![c].state = "closed"]

\* a thread enters fetch_all; its call is numbered in order of entry
Enter(t) ==
    /\ thread[t].pc = "idle"
    /\ Entered < MaxCalls
    /\ thread' = [thread EXCEPT ![t] =
                     [pc |-> "connect", call |-> Entered + 1, conn |-> 0, raised |-> "",
                      executed |-> 0]]
    /\ UNCHANGED <<conns, finished, repository, db_rows, call, singletonVars>>

\* pymysql.connect(...): a fresh connection, bound to the local conn of this
\* call, or an exception that leaves fetch_all at once
Connect(t) ==
    /\ thread[t].pc = "connect"
    /\ \/ /\ conns' = Append(conns, [state |-> "open", opener |-> thread[t].call,
                                     users |-> {}])
          /\ thread' = [thread EXCEPT ![t].pc = "cursor", ![t].conn = Len(conns) + 1]
          /\ UNCHANGED finished
       \/ /\ finished' = Append(finished, [call |-> thread[t].call, conn |-> 0,
                                           raised |-> "OperationalError",
                                           executed |-> 0, returned |-> FALSE])
          /\ thread' = [thread EXCEPT ![t] = [pc |-> "idle"]]
          /\ UNCHANGED conns
    /\ UNCHANGED <<repository, db_rows, call, singletonVars>>

\* where an exception raised inside the with block of fetch_all goes: there
\* is no except clause and no loop, so it leaves the block
on_raise_execute_again(at) == IF at = "execute" THEN "execute" ELSE "exit"
on_raise(at) == "exit"

\* conn.cursor(), cursor.execute(sql, tuple(params)) and cursor.fetchall(),
\* each on the local conn: the step succeeds or raises, and raising leaves
\* the with block; execute hands the statement to the server in both cases
Step(t, at, then) ==
    /\ thread[t].pc = at
    /\ conns' = [conns EXCEPT ![thread[t].conn].users = @ \cup {thread[t].call}]
    /\ LET sent == IF at = "execute" THEN 1 ELSE 0
       IN  \/ thread' = [thread EXCEPT ![t].pc = then, ![t].executed = @ + sent]
           \/ thread' = [thread EXCEPT ![t].pc = on_raise(at),
                                        ![t].raised = "OperationalError",
                                        ![t].executed = @ + sent]

    /\ UNCHANGED <<finished, repository, db_rows, call, singletonVars>>

Cursor(t) == Step(t, "cursor", "execute")
Execute(t) == Step(t, "execute", "fetchall")
Fetchall(t) == Step(t, "fetchall", "exit")

\* the with block is left: the finally clause of connection() runs and
\* fetch_all returns the rows or lets the exception through
Exit(t) ==
    /\ thread[t].pc = "exit"
    /\ conns' = connection_exit(conns, thread[t].conn, thread[t].raised)
    /\ finished' = Append(finished, [call |-> thread[t].call, conn |-> thread[t].conn,
                                     raised |-> thread[t].raised,
                                     executed |-> thread[t].executed,
                                     returned |-> thread[t].raised = ""])
    /\ thread' = [thread EXCEPT ![t] = [pc |-> "idle"]]
    /\ UNCHANGED <<repository, db_rows, call, singletonVars>>

NextGateway ==
    \/ \E t \in Threads : Enter(t)
    \/ \E t \in Threads : Connect(t)
    \/ \E t \in Threads : Cursor(t)
    \/ \E t \in Threads : Execute(t)
    \/ \E t \in Threads : Fetchall(t)
    \/ \E t \in Threads : Exit(t)

SpecGateway == InitStored /\ [][NextGateway]_vars

-----------------------------------------------------------------------------
(* server.py: get_repository and its three siblings (a module global each);
   api.py: get_repository and its three siblings (an lru_cache each).  The
   requests of a process run on threads, which may be switched between any
   two steps.  A repository object is the number of its construction, 0 is
   None or no cache entry. *)

\* requests begun so far, over all threads
RECURSIVE BegunBy(_)
BegunBy(threads) ==
    IF threads = {} THEN 0
    ELSE LET t == CHOOSE x \in threads : TRUE
         IN  request[t].n + BegunBy(threads \ {t})

gatewayAndCall == <<repository, db_rows, call, conns, thread, finished>>

\* a tool calls the accessor of server.py, a route that of api.py
Begin(t, via, kind) ==
    /\ request[t].pc = "idle"
    /\ BegunBy(Threads) < MaxRequests
    /\ request' = [request EXCEPT ![t] =
                      [pc |-> IF via = "tool" THEN "check" ELSE "lookup",
                       kind |-> kind, built |-> 0, n |-> request[t].n + 1]]
    /\ UNCHANGED <<server_globals, api_cache, constructed, seen, gatewayAndCall>>

\* server.py: if _repository is None
Check(t) ==
    /\ request[t].pc = "check"
    /\ request' = [request EXCEPT ![t].pc =
                      IF server_globals[request[t].kind] = 0 THEN "build" ELSE "return"]
    /\ UNCHANGED <<server_globals, api_cache, constructed, seen, gatewayAndCall>>

\* DatabaseConfig.from_env(), DatabaseClient(config), Repository.from_env:
\* a new object
Build(t) ==
    /\ request[t].pc \in {"build", "call"}
    /\ LET kind == request[t].kind
       IN  /\ constructed' = [constructed EXCEPT ![kind] = @ + 1]
           /\ request' = [request EXCEPT ![t].built = constructed[kind] + 1,
                                         ![t].pc = IF @ = "build" THEN "store" ELSE "insert"]
    /\ UNCHANGED <<server_globals, api_cache, seen, gatewayAndCall>>

\* server.py: _repository = ...
Store(t) ==
    /\ request[t].pc = "store"
    /\ server_globals' = [server_globals EXCEPT ![request[t].kind] = request[t].built]
    /\ request' = [request EXCEPT ![t].pc = "return"]
    /\ UNCHANGED <<api_cache, constructed, seen, gatewayAndCall>>

\* server.py: return _repository
ReturnGlobal(t) ==
    /\ request[t].pc = "return"
    /\ seen' = [seen EXCEPT ![request[t].kind] = @ \cup {server_globals[request[t].kind]}]
    /\ request' = [request EXCEPT ![t] = [pc |-> "idle", n |-> request[t].n]]
    /\ UNCHANGED <<server_globals, api_cache, constructed, gatewayAndCall>>

\* lru_cache: a hit returns the cached object, a miss calls the function
Lookup(t) ==
    /\ request[t].pc = "lookup"
    /\ LET kind == request[t].kind
       IN  IF api_cache[kind] # 0
           THEN /\ seen' = [seen EXCEPT ![kind] = @ \cup {api_cache[kind]}]
                /\ request' = [request EXCEPT ![t] = [pc |-> "idle", n |-> request[t].n]]
           ELSE /\ request' = [request EXCEPT ![t].pc = "call"]
                /\ UNCHANGED seen
    /\ UNCHANGED <<server_globals, api_cache, constructed, gatewayAndCall>>

\* lru_cache after the call: the result is cached unless another thread
\* has cached one in the meantime, and is returned in both cases
Insert(t) ==
    /\ request[t].pc = "insert"
    /\ LET kind == request[t].kind
       IN  /\ api_cache' = IF api_cache[kind] = 0
                           THEN [api_cache EXCEPT ![kind] = request[t].built]
                           ELSE api_cache
           /\ seen' = [seen EXCEPT ![kind] = @ \cup {request[t].built}]
    /\ request' = [request EXCEPT ![t] = [pc |-> "idle", n |-> request[t].n]]
    /\ UNCHANGED <<server_globals, constructed, gatewayAndCall>>

NextSingleton ==
    \/ \E t \in Threads, via \in {"tool", "http"}, kind \in Kinds : Begin(t, via, kind)
    \/ \E t \in Threads : Check(t)
    \/ \E t \in Threads : Build(t)
    \/ \E t \in Threads : Store(t)
    \/ \E t \in Threads : ReturnGlobal(t)
    \/ \E t \in Threads : Lookup(t)
    \/ \E t \in Threads : Insert(t)

SpecSingleton == InitStored /\ [][NextSingleton]_vars

-----------------------------------------------------------------------------
(* What the specification says, for the statements below *)

\* section 4.2: the mapping table of the time-frame normalizer
NormalizedPerSpec(value) ==
    CASE value = "1" -> "1m"
      [] value = "5" -> "5m"
      [] value = "15" -> "15m"
      [] value = "30" -> "30m"
      [] value = "45" -> "45m"
      [] value = "60" -> "1H"
      [] OTHER -> value

\* section 3: limit clamped to [1, 1000]
ClampedPerSpec(limit) == IF limit < 1 THEN 1 ELSE IF limit > 1000 THEN 1000 ELSE limit

\* section 4.1: non-empty, every character in [A-Za-z0-9_]
CleanIdentifier(text) ==
    /\ text # <<>>
    /\ \A i \in 1..Len(text) : text[i] \in IdentifierChars

\* the key under which a returned row carries its timestamp
TimestampKey(self) ==
    IF self.kind = "candle" THEN SqlName(self._timestamp_column) ELSE Str_timestamp

\* the instant of a serialized row
RowInstant(self, row) == InstantOfIso(Get(row, TimestampKey(self)).val.v)

Instants(self, rows) == [i \in DOMAIN rows |-> RowInstant(self, rows[i])]

Ascending(seq) == \A i \in 1..(Len(seq) - 1) : seq[i] < seq[i + 1]

\* a fetch call has ended, with these properties of its arguments
Fetched == call.op = "fetch"
ExchangeAllowed == call.exchange.some => repository._exchange_column.some
\* the gateway and the server work: the statement is answered with rows
Answered ==
    /\ call.fault = "none"
    /\ ~Raised(mysql_execute(repository, db_rows, call.symbol, call.time_frame, 1,
                             call.exchange, call.start_timestamp, call.end_timestamp))

\* the stored instants the filters of the call select, time frame per spec
MatchingOfCall ==
    Matching(db_rows, call.symbol, NormalizedPerSpec(call.time_frame), call.exchange,
             call.start_timestamp, call.end_timestamp)

-----------------------------------------------------------------------------
(* C1: every fetch with a valid symbol and time frame (legacy tokens
   included), answered by the database with rows in descending timestamp
   order, completes and returns the rows in ascending timestamp order. *)
C1_FetchCompletesAscending ==
    (Fetched /\ ExchangeAllowed /\ Answered) =>
        /\ ~Raised(call.result)
        /\ Ascending(Instants(repository, call.result.rows))

(* C2: for every integer limit the value bound as the LIMIT parameter is
   max(1, min(limit, 1000)), between 1 and 1000, and the returned sequence
   is no longer than it. *)
C2_LimitParameterClamped ==
    (Fetched /\ ExchangeAllowed) =>
        /\ call.result.sent
        /\ LET bound == call.result.params[Len(call.result.params)]
           IN  /\ bound = ClampedPerSpec(call.limit)
               /\ bound >= 1
               /\ bound <= 1000
               /\ Len(call.result.rows) <= bound

(* C3: with M stored rows matching the filters and clamped limit N, the
   result is exactly the min(N, M) matching rows of greatest timestamp, in
   ascending order. *)
C3_MostRecentRows ==
    (Fetched /\ ExchangeAllowed /\ Answered) =>
        LET n == ClampedPerSpec(call.limit)
            m == Cardinality(MatchingOfCall)
            k == IF n < m THEN n ELSE m
            top == SubSeq(Descending(MatchingOfCall), 1, k)
        IN  /\ ~Raised(call.result)
            /\ Instants(repository, call.result.rows) = Reverse(top)

(* C4: on a repository with no exchange column, every fetch that passes an
   exchange fails with the ValueError of the exchange filter: no rows, no
   other kind of error. *)
C4_ExchangeFilterRejected ==
    (Fetched /\ ~ExchangeAllowed) =>
        /\ call.result.raised = "ValueError"
        /\ call.result.rows = <<>>

(* C5: a request rejected for a validation error, an identifier refused by
   the sanitizer at construction or an exchange filter on a repository
   without exchange column, has opened no connection and executed no
   statement when the error is raised. *)
C5_RejectedBeforeAnyQuery ==
    /\ (call.op = "construct" /\ call.raised # "") =>
           /\ call.opened = 0
           /\ call.executed = 0
    /\ (Fetched /\ ~ExchangeAllowed) =>
           /\ Raised(call.result)
           /\ ~call.result.sent
           /\ call.result.opened = 0
           /\ call.result.executed = 0

C5_Witness ==
    /\ call.op = "construct"
    /\ call.raised = "ValueError"
    /\ repository = NoRepository

(* C6: _normalize_time_frame never raises; it returns 1m, 5m, 15m, 30m, 45m,
   1H for 1, 5, 15, 30, 45, 60 and every other string unchanged. *)
C6_NormalizeTotal ==
    call.op = "normalize" =>
        /\ ~Raised(call.once)
        /\ call.once.value = NormalizedPerSpec(call.value)

(* C7: normalizing twice gives what normalizing once gives; a canonical
   label is returned unchanged. *)
C7_NormalizeIdempotent ==
    call.op = "normalize" =>
        /\ ~Raised(call.once)
        /\ ~Raised(call.twice)
        /\ call.twice.value = call.once.value
        /\ (call.value \in {"1D", "30m"} => call.once.value = call.value)

(* C8: _sanitize_identifier chooses value, or default when value is empty,
   returns the chosen text exactly when it is non-empty and made of
   [A-Za-z0-9_] only, and raises otherwise; no other name is ever stored in
   a repository. *)
C8_OnlyCleanIdentifiers ==
    /\ call.op = "sanitize" =>
           LET chosen == IF call.value # <<>> THEN call.value ELSE call.default
           IN  IF CleanIdentifier(chosen)
               THEN ~Raised(call.result) /\ call.result.value = chosen
               ELSE Raised(call.result)
    /\ repository # NoRepository =>
           /\ CleanIdentifier(repository._table)
           /\ CleanIdentifier(repository._symbol_column)
           /\ CleanIdentifier(repository._time_frame_column)
           /\ CleanIdentifier(repository._timestamp_column)
           /\ repository._exchange_column.some =>
                  CleanIdentifier(repository._exchange_column.val)

\* the statement the repository builds for other values of the arguments,
\* with the same filters present
ReferenceStatement ==
    build_statement(repository, "OTHER", "1W", 7,
                    IF call.exchange.some THEN Some("OTHERX") ELSE None,
                    IF call.start_timestamp.some THEN Some(WireTime[1]) ELSE None,
                    IF call.end_timestamp.some THEN Some(WireTime[1]) ELSE None).value

(* C9: the SQL text sent to the gateway depends only on the configuration
   and on which of exchange, start_timestamp, end_timestamp are given; the
   values of the arguments are in the bound parameters, in order. *)
C9_TextIndependentOfValues ==
    (Fetched /\ ExchangeAllowed) =>
        /\ call.result.sent
        /\ call.result.sql = ReferenceStatement.sql
        /\ Len(call.result.params) = Len(ReferenceStatement.params)
        /\ call.result.params[1] = call.symbol
        /\ call.result.params[2] = NormalizedPerSpec(call.time_frame)
        /\ call.result.params[Len(call.result.params)] = ClampedPerSpec(call.limit)

(* C10: every fetch_all call that connects has a connection of its own, no
   call but its opener uses a connection, and the connection of a call that
   has exited, with rows or with an exception, is closed. *)
C10_ConnectionPerCallClosed ==
    /\ \A c \in DOMAIN conns : conns[c].users \subseteq {conns[c].opener}
    /\ \A c, d \in DOMAIN conns : c # d => conns[c].opener # conns[d].opener
    /\ \A i \in DOMAIN finished :
           finished[i].conn # 0 =>
               /\ conns[finished[i].conn].opener = finished[i].call
               /\ conns[finished[i].conn].state = "closed"
    /\ \A t \in Threads :
           thread[t].pc \in {"cursor", "execute", "fetchall", "exit"} =>
               conns[thread[t].conn].opener = thread[t].call

\* two calls overlapped, one left by an exception after connecting and one
\* returned rows
C10_Witness ==
    /\ \E i, j \in DOMAIN finished :
           /\ finished[i].conn # 0 /\ finished[i].raised # ""
           /\ finished[j].conn # 0 /\ finished[j].raised = ""
           /\ finished[i].call < finished[j].call
           /\ i > j

-----------------------------------------------------------------------------
(* The response envelope *)

EntityKey(kind) ==
    CASE kind = "candle" -> "candles"
      [] kind = "footprint" -> "footprints"
      [] kind = "cvd" -> "cvd"
      [] kind = "ema" -> "ema"

Formatted == call.op = "format"

\* the timestamp of a row is text or null, as the serializer leaves a
\* datetime column
TextOrNull(row) ==
    /\ Get(row, Str_timestamp).some
    /\ Get(row, Str_timestamp).val.t \in {"str", "NoneType"}

\* what the envelope is to show for a timestamp: ISO-8601 text in the display
\* format, anything else as it is
Shown(value) ==
    IF value.t # "str" THEN value
    ELSE IF \E n \in DOMAIN IsoTime : IsoTime[n] = value.v
    THEN Str(WireTime[CHOOSE n \in DOMAIN IsoTime : IsoTime[n] = value.v])
    ELSE value

\* row b carries every entry of row a, in the order of a
Carries(b, a) ==
    /\ Len(b) >= Len(a)
    /\ \A i \in DOMAIN a : b[i] = a[i]

C12_TimestampNeverRaises ==
    Formatted /\ call.rows # <<>>
              /\ Get(call.rows[1], Str_timestamp).some
              /\ Get(call.rows[Len(call.rows)], Str_timestamp).some =>
        /\ ~Raised(call.result)
        /\ call.result.value.start_timestamp
               = Shown(Get(call.rows[1], Str_timestamp).val)
        /\ call.result.value.end_timestamp
               = Shown(Get(call.rows[Len(call.rows)], Str_timestamp).val)

-----------------------------------------------------------------------------
(* The levels of a volume footprint *)

\* what the levels of an output row are to be for a stored value: bytes that
\* are UTF-8 as their text, JSON text as the parsed value, the rest as it is
LevelsPerSpec(stored) ==
    LET text == IF stored.t = "bytes" /\ stored.v # "<not utf-8>"
                THEN [t |-> "str", v |-> stored.v] ELSE stored
    IN  IF text.t = "str" /\ text.v = "{\"a\":1}"
        THEN [t |-> "dict", v |-> text.v] ELSE text

\* C13: fetch_volume_footprints does not raise over the levels of a row, and
\* every output row has the levels of its stored row with bytes that are UTF-8
\* decoded, JSON text parsed, and everything else (bytes that are not UTF-8,
\* text that is not JSON, null) unchanged.
C13_LevelsNormalised ==
    Fetched /\ repository.kind = "footprint" /\ ExchangeAllowed /\ Answered =>
        /\ ~Raised(call.result)
        /\ \A i \in DOMAIN call.result.rows :
               Get(call.result.rows[i], Str_levels)
                   = Some(LevelsPerSpec(StoredLevels(RowInstant(repository, call.result.rows[i]))))

-----------------------------------------------------------------------------
(* The keys of an EMA row *)

EmaKeys ==
    <<<<Str_c20_ema, Str_u20_ema>>, <<Str_c50_ema, Str_u50_ema>>,
      <<Str_c100_ema, Str_u100_ema>>, <<Str_c200_ema, Str_u200_ema>>>>

\* C14: the rows fetch_ema returns are the selected rows in number and order,
\* and each of them carries 20_ema, 50_ema, 100_ema, 200_ema and, with the
\* same values, _20_ema, _50_ema, _100_ema, _200_ema.
C14_FetchEmaUnderscoreKeys ==
    Fetched /\ repository.kind = "ema" /\ ExchangeAllowed /\ Answered =>
        LET n == ClampedPerSpec(call.limit)
            m == Cardinality(MatchingOfCall)
            k == IF n < m THEN n ELSE m
        IN  /\ ~Raised(call.result)
            /\ Instants(repository, call.result.rows)
                   = Reverse(SubSeq(Descending(MatchingOfCall), 1, k))
            /\ \A i \in DOMAIN call.result.rows : \A j \in DOMAIN EmaKeys :
                   /\ Get(call.result.rows[i], EmaKeys[j][1]).some
                   /\ Get(call.result.rows[i], EmaKeys[j][2])
                          = Get(call.result.rows[i], EmaKeys[j][1])

-----------------------------------------------------------------------------
(* The two transports *)

Requested == call.op = "request"

\* the request asks for an exchange filter the repository cannot apply
ExchangeRefused == call.exchange.some /\ ~repository._exchange_column.some

\* C15: on each route a request (here with a limit in 1..1000) with an
\* exchange filter for an entity with no exchange column is answered with
\* status 400, not with a server failure and not with a result; a request
\* whose statement failed in execution is answered with a server failure
\* (500), not with 400.
C15_HttpStatusOfFailures ==
    Requested /\ call.limit \in 1..1000 =>
        /\ ExchangeRefused => call.http.status = 400
        /\ ~ExchangeRefused /\ call.http.executed > 0 /\ call.fault = "execute" =>
               call.http.status = 500

\* C16: the route and the tool of an entity, given the same arguments, hand
\* the same statement and parameters to the gateway and end the same way
\* (the same envelope, or a failure in both); a limit outside 1..1000 is
\* clamped by both and refused by neither.
C16_TransportsEquivalent ==
    Requested =>
        /\ call.http.sent = call.tool.sent
        /\ call.http.sql = call.tool.sql
        /\ call.http.params = call.tool.params
        /\ (call.http.status = 200) = (call.tool.raised = "")
        /\ call.http.envelope = call.tool.envelope
        /\ call.http.status # 422
        /\ call.http.limit = ClampedPerSpec(call.limit)
        /\ call.tool.limit = ClampedPerSpec(call.limit)

-----------------------------------------------------------------------------
(* One repository object per entity *)

\* C17: whatever the interleaving of the first requests, through the tools
\* and through the routes of one process, the constructor of an entity's
\* repository runs at most once and every request is given the same object.
C17_ConstructedOnce ==
    \A kind \in Kinds :
        /\ constructed[kind] <= 1
        /\ Cardinality(seen[kind]) <= 1

-----------------------------------------------------------------------------
(* No retry *)

\* C18: a fetch hands at most one statement to the server, on at most one
\* connection; a failure of the execution leaves fetch_all at once, without
\* another connection, without another execution, and without a row list.
\* (A fetch method calls fetch_all once, so a call of fetch_all is a fetch.)
C18_AtMostOneStatement ==
    /\ \A t \in Threads :
           thread[t].pc # "idle" =>
               /\ thread[t].executed <= 1
               /\ thread[t].raised # "" => thread[t].pc = "exit"
    /\ \A i \in DOMAIN finished :
           /\ finished[i].executed <= 1
           /\ Cardinality({c \in DOMAIN conns : conns[c].opener = finished[i].call}) <= 1
           /\ finished[i].raised # "" => ~finished[i].returned
           /\ \A j \in DOMAIN finished : finished[j].call = finished[i].call => j = i

\* a statement was executed and failed, and the call has ended with the
\* exception
C18_Witness ==
    \E i \in DOMAIN finished :
        /\ finished[i].raised = "OperationalError"
        /\ finished[i].executed = 1
        /\ ~finished[i].returned

-----------------------------------------------------------------------------
(* The shape of the statement *)

\* the words of a statement, one space between two
RECURSIVE Spaced(_)
Spaced(words) ==
    IF words = <<>> THEN <<>>
    ELSE IF Len(words) = 1 THEN words[1]
    ELSE words[1] \o <<" ">> \o Spaced(Tail(words))

Placeholder == <<"%", "s">>

\* the statement from WHERE on, for the filters of the call
TailPerSpec ==
    Spaced(<<<<"W","H","E","R","E">>, repository._symbol_column, <<"=">>, Placeholder,
             <<"A","N","D">>, repository._time_frame_column, <<"=">>, Placeholder>>
           \o (IF call.exchange.some
               THEN <<<<"A","N","D">>, repository._exchange_column.val, <<"=">>, Placeholder>>
               ELSE <<>>)
           \o (IF call.start_timestamp.some
               THEN <<<<"A","N","D">>, repository._timestamp_column, <<">", "=">>, Placeholder>>
               ELSE <<>>)
           \o (IF call.end_timestamp.some
               THEN <<<<"A","N","D">>, repository._timestamp_column, <<"<", "=">>, Placeholder>>
               ELSE <<>>)
           \o <<<<"O","R","D","E","R">>, <<"B","Y">>, repository._timestamp_column, <<"D","E","S","C">>,
                <<"L","I","M","I","T">>, Placeholder>>)

ParamsPerSpec ==
    <<call.symbol, NormalizedPerSpec(call.time_frame)>>
        \o (IF call.exchange.some THEN <<call.exchange.val>> ELSE <<>>)
        \o (IF call.start_timestamp.some THEN <<call.start_timestamp.val>> ELSE <<>>)
        \o (IF call.end_timestamp.some THEN <<call.end_timestamp.val>> ELSE <<>>)
        \o <<ClampedPerSpec(call.limit)>>

Placeholders(sql) ==
    Cardinality({i \in 1..(Len(sql) - 1) : SubSeq(sql, i, i + 1) = Placeholder})

EndsWith(text, end) ==
    /\ Len(text) >= Len(end)
    /\ SubSeq(text, Len(text) - Len(end) + 1, Len(text)) = end

\* C19: for each repository and each combination of exchange (with an
\* exchange column configured), start_timestamp and end_timestamp given or
\* not, the statement handed to the gateway is SELECT ... FROM table, then
\* WHERE symbol = %s AND time_frame = %s, then the AND clauses of exactly the
\* filters given, in the order exchange, start, end, then ORDER BY timestamp
\* DESC LIMIT %s; the parameters are symbol, normalized time frame, the
\* filters given, clamped limit, as many as there are placeholders.
C19_StatementShape ==
    Fetched /\ ExchangeAllowed =>
        /\ call.result.sent
        /\ EndsWith(call.result.sql, <<" ">> \o TailPerSpec)
        /\ LET head == SubSeq(call.result.sql, 1,
                              Len(call.result.sql) - Len(TailPerSpec) - 1)
           IN  /\ Len(head) > 7 /\ SubSeq(head, 1, 7) = <<"S","E","L","E","C","T"," ">>
               /\ EndsWith(head, <<" ","F","R","O","M"," ">> \o repository._table)
               /\ Placeholders(head) = 0
        /\ call.result.params = ParamsPerSpec
        /\ Placeholders(call.result.sql) = Len(call.result.params)

-----------------------------------------------------------------------------
(* The row serializer *)

Serialized == call.op = "serialize"

\* what a cell is to become: ISO-8601 text for datetime and date, float for
\* Decimal, itself otherwise
CellPerSpec(value) ==
    CASE value.t = "datetime" -> [t |-> "str", v |-> IsoTime[value.v]]
      [] value.t = "date" -> [t |-> "str", v |-> IsoDate[value.v]]
      [] value.t = "Decimal" -> [t |-> "float", v |-> value.v]
      [] OTHER -> value

\* C20: _serialize_row returns a mapping with the keys of the row, in their
\* order; a datetime or date has become its ISO-8601 text, a Decimal a float,
\* and every other value (null and unrecognised types included) is the value
\* of the row.
C20_SerializeRow ==
    Serialized =>
        /\ Len(call.result) = Len(call.row)
        /\ \A i \in DOMAIN call.row :
               /\ call.result[i][1] = call.row[i][1]
               /\ call.result[i][2] = CellPerSpec(call.row[i][2])

\* a row with a Decimal and a value of a type the serializer does not know
C20_Witness ==
    /\ Serialized
    /\ Len(call.row) = MaxRowKeys
    /\ call.row[1][2].t = "Decimal" /\ call.result[1][2].t = "float"
    /\ call.row[Len(call.row)][2].t = "timedelta"
    /\ call.result[Len(call.row)][2] = call.row[Len(call.row)][2]

-----------------------------------------------------------------------------
(* The keys the envelope builder reads *)

HasKey(row, key) == \E i \in DOMAIN row : row[i][1] = key

\* C21: for every repository and every configuration the sanitizer accepts,
\* a fetch that the database answers returns rows that carry the keys symbol,
\* time_frame and timestamp, and the envelope builder of the entity does not
\* fail on them for want of a key.
C21_RowsCarryEnvelopeKeys ==
    Fetched /\ ExchangeAllowed /\ Answered =>
        /\ ~Raised(call.result)
        /\ \A i \in DOMAIN call.result.rows :
               /\ HasKey(call.result.rows[i], Str_symbol)
               /\ HasKey(call.result.rows[i], Str_time_frame)
               /\ HasKey(call.result.rows[i], Str_timestamp)
        /\ format_response(repository.kind, call.result.rows).raised # "KeyError"

====
